---- MODULE Spec2Model ----
(***************************************************************************)
(* A model of the QSDsan web backend: the Flask blueprints for the         *)
(* fermentation, HTL and combustion pathways (app/blueprints) and the      *)
(* fermentation service (app/services/fermentation_service.py): the unit   *)
(* normalizer, the county resolver and the simulation gateway that         *)
(* configures biosteam and runs sys.simulate().                            *)
(*                                                                         *)
(* Python strings are sequences of one-character strings, so that          *)
(* str.lower(), float() and list membership are computed, not assumed.     *)
(* Floats are fixed-point integers: quantities in 1/Scale kg/hr, prices    *)
(* in 1/100 USD.                                                           *)
(***************************************************************************)
EXTENDS Naturals, Integers, Sequences, FiniteSets, TLC

VARIABLES
    table,          \* STATE_DATA, the reference table read at import
    PowerUtility,   \* bst.PowerUtility: class attributes, process-wide
    req,            \* per request: the endpoint and its query arguments
    pc,             \* per request: the position of its handler
    loc,            \* per request: the handler's and the gateway's locals
    resp,           \* per request: what the handler returned
    simCalls        \* per request: invocations of the simulation collaborator

vars == <<table, PowerUtility, req, pc, loc, resp, simCalls>>

----------------------------------------------------------------------------
(* Bounds of the model. *)

\* concurrent requests (threads of the WSGI server) in SpecThreads
NumReqs == 2
\* longest mass / county_name query string
MaxStrLen == 2
\* most rows of the reference table
MaxRows == 2

\* most whole units of a quantity handed to the normalizer directly
MaxValue == 100

Reqs == 1 .. NumReqs

\* fixed-point resolution of kg/hr quantities
Scale == 10 * 1000

----------------------------------------------------------------------------
(* Python strings. *)

\* the characters a mass / sludge query string is drawn from
MassAlphabet == {"1", "x", " "}
\* the characters a county name is drawn from
NameAlphabet == {"a", "A", "b"}

StringsOver(A, n) == UNION {[1 .. k -> A] : k \in 0 .. n}

UpperToLower ==
    [c \in {"A", "B", "K", "G", "H", "R", "T", "O", "N", "S"} |->
        CASE c = "A" -> "a" [] c = "B" -> "b" [] c = "K" -> "k"
          [] c = "G" -> "g" [] c = "H" -> "h" [] c = "R" -> "r"
          [] c = "T" -> "t" [] c = "O" -> "o" [] c = "N" -> "n"
          [] c = "S" -> "s"]

LowerChar(c) == IF c \in DOMAIN UpperToLower THEN UpperToLower[c] ELSE c

\* str.lower()
Lower(s) == [i \in 1 .. Len(s) |-> LowerChar(s[i])]

\* str.strip(): what float() does to its argument first
RECURSIVE LStrip(_)
LStrip(s) == IF s # <<>> /\ Head(s) = " " THEN LStrip(Tail(s)) ELSE s

RECURSIVE RStrip(_)
RStrip(s) ==
    IF s # <<>> /\ s[Len(s)] = " " THEN RStrip(SubSeq(s, 1, Len(s) - 1)) ELSE s

Strip(s) == RStrip(LStrip(s))

DigitVal ==
    [c \in {"0", "1", "2", "3", "4", "5", "6", "7", "8", "9"} |->
        CASE c = "0" -> 0 [] c = "1" -> 1 [] c = "2" -> 2 [] c = "3" -> 3
          [] c = "4" -> 4 [] c = "5" -> 5 [] c = "6" -> 6 [] c = "7" -> 7
          [] c = "8" -> 8 [] c = "9" -> 9]

\* float(s) raises ValueError unless, stripped, s is a numeric literal; over
\* MassAlphabet the numeric literals are the non-empty digit strings
FloatParses(s) ==
    /\ Strip(s) # <<>>
    /\ \A i \in 1 .. Len(Strip(s)) : Strip(s)[i] \in DOMAIN DigitVal

RECURSIVE DigitsValue(_)
DigitsValue(d) ==
    IF d = <<>> THEN 0
    ELSE 10 * DigitsValue(SubSeq(d, 1, Len(d) - 1)) + DigitVal[d[Len(d)]]

\* float(s), in 1/Scale units
FloatOf(s) == DigitsValue(Strip(s)) * Scale

S_kghr == <<"k", "g", "h", "r">>
S_tons == <<"t", "o", "n", "s">>
S_tonnes == <<"t", "o", "n", "n", "e", "s">>
S_mgd == <<"m", "g", "d">>
S_m3d == <<"m", "3", "d">>
S_KGHR == <<"K", "G", "H", "R">>
S_bogus == <<"b", "o", "g", "u", "s">>

----------------------------------------------------------------------------
(* Python values: None, str, float, int (numpy.int64 is not an int). *)

PyNone == [t |-> "None", s |-> <<>>, v |-> 0]
PyStr(s) == [t |-> "str", s |-> s, v |-> 0]
PyFloat(v) == [t |-> "float", s |-> <<>>, v |-> v]
PyInt64(v) == [t |-> "int64", s |-> <<>>, v |-> v]
PyNaN == [t |-> "nan", s |-> <<>>, v |-> 0]

\* isinstance(x, (int, float)): numpy.float64 (and nan) subclass float,
\* numpy.int64 does not subclass int
IsNumber(x) == x.t \in {"float", "nan"}

\* "if not x" on a str or None
Falsy(x) == x.t = "None" \/ (x.t = "str" /\ x.s = <<>>)

\* exceptions
NoExc == [cls |-> "", msg |-> ""]
Exc(c, m) == [cls |-> c, msg |-> m]

\* str(e): KeyError shows the repr of its argument
StrOfExc(e) == IF e.cls = "KeyError" THEN "'" \o e.msg \o "'" ELSE e.msg

----------------------------------------------------------------------------
(* The reference table (pandas DataFrame STATE_DATA). *)

COL_TONS == "Lignocellulose (dry tons)"
COL_KG == "Kilogram/hr"

\* the rows the table may hold: two spellings of one county name, a second
\* county, a dry-tons cell that is a float or empty (NaN), and a repeated name
TableRows ==
    {[County |-> <<"A", "b">>, tons |-> PyFloat((127 * Scale) \div 10),
      kghr |-> PyFloat(3 * Scale)],
     [County |-> <<"a", "b">>, tons |-> PyNaN, kghr |-> PyFloat(5 * Scale)],
     [County |-> <<"b">>, tons |-> PyFloat(40 * Scale), kghr |-> PyFloat(9 * Scale)],
     [County |-> <<"A", "b">>, tons |-> PyNaN, kghr |-> PyFloat(7 * Scale)]}

\* the columns the file may have, and the dtype pandas gives Kilogram/hr
TableSchemas ==
    {[cols |-> {COL_TONS, COL_KG}, kgInt |-> FALSE],
     [cols |-> {COL_TONS, COL_KG}, kgInt |-> TRUE],
     [cols |-> {COL_KG}, kgInt |-> FALSE],
     [cols |-> {COL_TONS}, kgInt |-> FALSE]}

Tables ==
    {[rows |-> rs, cols |-> sc.cols, kgInt |-> sc.kgInt] :
        rs \in UNION {[1 .. k -> TableRows] : k \in 0 .. MaxRows},
        sc \in TableSchemas}

\* int(x) of a float cell: truncation; of NaN: ValueError
IntOf(v) == (v \div Scale) * Scale

----------------------------------------------------------------------------
(* Results of service calls: a value or a raised exception. *)

Ok(val) == [exc |-> NoExc, val |-> val]
Raise(c, m) == [exc |-> Exc(c, m), val |-> PyNone]

----------------------------------------------------------------------------
(* Unit normalizer. *)

\* v * (whole + milli / 1000) in fixed point, within TLC's 32-bit integers
TimesMilli(v, whole, milli) == v * whole + (v * milli) \div 1000

\* mutant: a short ton taken as 907 kg
fermentation_convert_feedstock_kg_hr_Tons907(feedstock, unit) ==
    IF ~IsNumber(feedstock) THEN Raise("TypeError", "Feedstock should be a number")
    ELSE IF unit.t # "str" THEN Raise("TypeError", "Unit should be a string")
    ELSE IF Lower(unit.s) = S_kghr THEN Ok(feedstock)
    ELSE IF Lower(unit.s) = S_tons
        THEN Ok(PyFloat((feedstock.v * 907) \div 8760))
    ELSE IF Lower(unit.s) = S_tonnes
        THEN Ok(PyFloat((feedstock.v * 1000) \div 8760))
    ELSE Raise("ValueError", "Invalid unit")

\* mutant: the unit is looked at before the type of the feedstock
fermentation_convert_feedstock_kg_hr_UnitFirst(feedstock, unit) ==
    IF unit.t # "str" THEN Raise("TypeError", "Unit should be a string")
    ELSE IF Lower(unit.s) \notin {S_kghr, S_tons, S_tonnes}
        THEN Raise("ValueError", "Invalid unit")
    ELSE IF ~IsNumber(feedstock) THEN Raise("TypeError", "Feedstock should be a number")
    ELSE IF Lower(unit.s) = S_kghr THEN Ok(feedstock)
    ELSE IF Lower(unit.s) = S_tons
        THEN Ok(PyFloat(TimesMilli(feedstock.v, 907, 185) \div 8760))
    ELSE Ok(PyFloat((feedstock.v * 1000) \div 8760))

fermentation_convert_feedstock_kg_hr(feedstock, unit) ==
    IF ~IsNumber(feedstock) THEN Raise("TypeError", "Feedstock should be a number")
    ELSE IF unit.t # "str" THEN Raise("TypeError", "Unit should be a string")
    ELSE IF Lower(unit.s) = S_kghr THEN Ok(feedstock)
    ELSE IF Lower(unit.s) = S_tons
        THEN Ok(PyFloat(TimesMilli(feedstock.v, 907, 185) \div 8760))
    ELSE IF Lower(unit.s) = S_tonnes
        THEN Ok(PyFloat((feedstock.v * 1000) \div 8760))
    ELSE Raise("ValueError", "Invalid unit")

\* app/services/htl_service.py is not part of the sources: the sludge
\* normalizer extends the unit set with volumetric flows (spec 4.1)
htl_convert_sludge_mass_kg_hr(sludge, unit) ==
    IF ~IsNumber(sludge) THEN Raise("TypeError", "Sludge should be a number")
    ELSE IF unit.t # "str" THEN Raise("TypeError", "Unit should be a string")
    ELSE IF Lower(unit.s) = S_mgd
        THEN Ok(PyFloat(TimesMilli(sludge.v, 157, 725)))
    ELSE IF Lower(unit.s) = S_m3d
        THEN Ok(PyFloat((sludge.v * 1000) \div 24))
    ELSE fermentation_convert_feedstock_kg_hr(sludge, unit)

----------------------------------------------------------------------------
(* Simulation gateway: arguments and configuration. *)

StreamIDs ==
    {"cornstover", "sulfuric_acid", "ammonia", "cellulase", "CSL", "caustic",
     "FGD_lime"}

\* the module-level default of GWP_CFs, in 1/100 kg CO2-eq/kg
GWP_CFs == [ID \in StreamIDs |-> IF ID = "cornstover" THEN 20 ELSE 100]

AltGWP_CFs == [ID \in StreamIDs |-> IF ID = "cornstover" THEN 30 ELSE 100]

\* fermentation_calc(mass): the defaults of the signature
DefaultArgs(mass) ==
    [mass |-> mass,
     cornstover_price |-> PyFloat(20),
     GWP_CFs |-> [isdict |-> TRUE, cf |-> GWP_CFs],
     characterization_factors |-> [istuple |-> TRUE, cf |-> <<100, 100>>],
     power_utility_price |-> PyFloat(7)]

\* override configurations a direct caller passes
OverrideArgs(mass) ==
    {DefaultArgs(mass),
     [DefaultArgs(mass) EXCEPT !.power_utility_price = PyFloat(9)],
     [DefaultArgs(mass) EXCEPT !.characterization_factors.cf = <<200, 200>>],
     [DefaultArgs(mass) EXCEPT !.cornstover_price = PyFloat(30),
                               !.GWP_CFs.cf = AltGWP_CFs],
     [DefaultArgs(mass) EXCEPT !.cornstover_price = PyStr(<<"1">>)],
     [DefaultArgs(mass) EXCEPT !.GWP_CFs.isdict = FALSE]}

\* the type checks that open fermentation_calc
GatewayTypeError(a) ==
    IF ~IsNumber(a.mass) THEN Exc("TypeError", "Mass should be a number")
    ELSE IF ~IsNumber(a.cornstover_price)
        THEN Exc("TypeError", "Cornstover price should be a number")
    ELSE IF ~IsNumber(a.power_utility_price)
        THEN Exc("TypeError", "Power utility price should be a number")
    ELSE IF ~a.GWP_CFs.isdict THEN Exc("TypeError", "GWP_CFs should be a dictionary")
    ELSE IF ~a.characterization_factors.istuple
        THEN Exc("TypeError", "Characterization factors should be a tuple")
    ELSE NoExc

\* the streams of a freshly built CellulosicEthanol flowsheet (library
\* values, shown as 0 until the gateway writes them)
FreshFlowsheet == [F_mass |-> 0, price |-> 0, cf |-> [ID \in StreamIDs |-> 0]]

\* bst.PowerUtility before any gateway call
LibraryPowerUtility == [price |-> 0, cf |-> <<0, 0>>]

\* the configuration a run of sys.simulate() reads: the call's flowsheet and
\* the process-wide PowerUtility
ConfigInEffect(fs, pu) ==
    [F_mass |-> fs.F_mass, price |-> fs.price, cf |-> fs.cf,
     pu_price |-> pu.price, pu_cf |-> pu.cf]

\* the configuration a call's own arguments describe
ConfigOf(a) ==
    [F_mass |-> a.mass.v, price |-> a.cornstover_price.v, cf |-> a.GWP_CFs.cf,
     pu_price |-> a.power_utility_price.v, pu_cf |-> a.characterization_factors.cf]

NoConfig == ConfigInEffect(FreshFlowsheet, LibraryPowerUtility)

RECURSIVE SumCF(_, _)
SumCF(cf, S) ==
    IF S = {} THEN 0
    ELSE LET ID == CHOOSE x \in S : TRUE IN cf[ID] + SumCF(cf, S \ {ID})

\* get_ethanol(), get_MESP(), get_GWP(): the external model is deterministic
\* in the configuration it ran with; these stand for its three outputs
Metrics(cfg) ==
    [ethanol |-> cfg.F_mass,
     price |-> cfg.price + cfg.pu_price,
     gwp |-> SumCF(cfg.cf, StreamIDs) + cfg.pu_cf[1] + cfg.pu_cf[2]]

NoMetrics == [ethanol |-> 0, price |-> 0, gwp |-> 0]

\* what sys.simulate() may raise: the collaborator is opaque
SimExceptions ==
    {Exc("RuntimeError", "simulation did not converge"),
     Exc("ValueError", "math domain error"),
     Exc("TypeError", "unsupported operand"),
     Exc("KeyError", "GWP")}

----------------------------------------------------------------------------
(* County resolver: fermentation_county up to its call of the gateway. *)

NoCounty == [exc |-> NoExc, row |-> 0, name_final |-> <<>>, dry_tonnes |-> 0,
             kg_per_hr |-> PyNone]

CountyRaise(c, m) == [NoCounty EXCEPT !.exc = Exc(c, m)]

\* mutant: the membership test compares the caller's spelling as it is
CountyMatches_Exact(name, t) ==
    \E i \in 1 .. Len(t.rows) : t.rows[i].County = name

\* name.lower() in state_data['County'].str.lower().values
CountyMatches(name, t) ==
    \E i \in 1 .. Len(t.rows) : Lower(t.rows[i].County) = Lower(name)

\* state_data.loc[state_data['County'].str.lower() == name.lower(), ...]
\* .values[0]: the first row the mask selects
MatchRow(name, t) ==
    CHOOSE i \in 1 .. Len(t.rows) :
        /\ Lower(t.rows[i].County) = Lower(name)
        /\ \A j \in 1 .. (i - 1) : Lower(t.rows[j].County) # Lower(name)

\* state_data.loc[state_data['County'] == name_final, ...].values[0]
ExactRow(name_final, t) ==
    CHOOSE i \in 1 .. Len(t.rows) :
        /\ t.rows[i].County = name_final
        /\ \A j \in 1 .. (i - 1) : t.rows[j].County # name_final

\* the Kilogram/hr cell as pandas hands it over
KgCell(t, i) ==
    IF t.kgInt THEN PyInt64(t.rows[i].kghr.v) ELSE t.rows[i].kghr

fermentation_county_lookup(name, t) ==
    IF name.t # "str" THEN CountyRaise("TypeError", "County should be a string")
    ELSE IF ~CountyMatches(name.s, t)
        THEN CountyRaise("ValueError", "County not found in the state data")
    ELSE LET name_final == t.rows[MatchRow(name.s, t)].County
             i == ExactRow(name_final, t)
         IN  IF COL_TONS \notin t.cols
                THEN CountyRaise("KeyError",
                        "Column 'Lignocellulose (dry tons)' not found in the dataset.")
             ELSE IF t.rows[i].tons.t = "nan"
                THEN CountyRaise("ValueError",
                        "Value in 'Lignocellulose (dry tons)' cannot be converted to an integer.")
             ELSE IF COL_KG \notin t.cols
                THEN CountyRaise("KeyError",
                        "Column 'Kilogram/hr' not found in the dataset.")
             ELSE [exc |-> NoExc, row |-> i, name_final |-> name_final,
                   dry_tonnes |-> IntOf(t.rows[i].tons.v),
                   kg_per_hr |-> KgCell(t, i)]

----------------------------------------------------------------------------
(* Responses. *)

NoResponse ==
    [kind |-> "pending", status |-> 0, fields |-> {}, error |-> "",
     exc |-> NoExc, county_name |-> <<>>, qty |-> 0, product |-> 0,
     price |-> 0, gwp |-> 0]

\* make_response(jsonify({key: msg}), status)
ErrorEnvelope(status, key, msg) ==
    [NoResponse EXCEPT !.kind = "envelope", !.status = status,
                       !.fields = {key}, !.error = msg]

\* the view function returned None: Flask has no response to send
ReturnedNone == [NoResponse EXCEPT !.kind = "none"]

\* an exception left the view function
Escaped(e) == [NoResponse EXCEPT !.kind = "escaped", !.exc = e]

\* a direct caller of the gateway gets the tuple, or the exception
Returned(m) ==
    [NoResponse EXCEPT !.kind = "returned", !.product = m.ethanol,
                       !.price = m.price, !.gwp = m.gwp]

Endpoints ==
    {"fermentation_calc", "fermentation_county", "htl_calc", "htl_county",
     "combustion_calc", "combustion_county", "direct"}

FermentationUnits == {S_kghr, S_tons, S_tonnes}
HtlUnits == {S_kghr, S_tons, S_tonnes, S_mgd, S_m3d}

\* request.args.get('unit', 'kghr')
UnitOrDefault(u) == IF u.t = "None" THEN PyStr(S_kghr) ELSE u

\* mutant: the unit is checked before the mass
fermentation_calc_checks_UnitFirst(q) ==
    IF UnitOrDefault(q.unit).s \notin FermentationUnits
        THEN ErrorEnvelope(422, "error",
                "Unit must be one of 'kghr', 'tons', 'tonnes'")
    ELSE IF q.mass.t = "None" THEN ErrorEnvelope(400, "error", "Mass is required")
    ELSE IF ~FloatParses(q.mass.s)
        THEN ErrorEnvelope(400, "error", "Mass must be a number")
    ELSE NoResponse

\* fermentation_calc_data up to its try: the response the checks give, or
\* NoResponse when they pass
fermentation_calc_checks(q) ==
    IF q.mass.t = "None" THEN ErrorEnvelope(400, "error", "Mass is required")
    ELSE IF ~FloatParses(q.mass.s)
        THEN ErrorEnvelope(400, "error", "Mass must be a number")
    ELSE IF UnitOrDefault(q.unit).s \notin FermentationUnits
        THEN ErrorEnvelope(422, "error",
                "Unit must be one of 'kghr', 'tons', 'tonnes'")
    ELSE NoResponse

\* mutant: the handler leaves the unit to the normalizer
htl_calc_checks_NoUnitCheck(q) ==
    IF q.mass.t = "None" THEN ErrorEnvelope(400, "error", "Sludge not provided")
    ELSE IF ~FloatParses(q.mass.s)
        THEN ErrorEnvelope(400, "error", "Sludge should be a number")
    ELSE NoResponse

\* htl_calc_data up to its call of the normalizer
htl_calc_checks(q) ==
    IF q.mass.t = "None" THEN ErrorEnvelope(400, "error", "Sludge not provided")
    ELSE IF ~FloatParses(q.mass.s)
        THEN ErrorEnvelope(400, "error", "Sludge should be a number")
    ELSE IF UnitOrDefault(q.unit).s \notin HtlUnits
        THEN ErrorEnvelope(422, "error", "Invalid unit")
    ELSE NoResponse

\* fermentation_county_data up to its try
fermentation_county_checks(q) ==
    IF Falsy(q.county_name)
    THEN ErrorEnvelope(400, "error", "County name is required")
    ELSE NoResponse

\* htl_county_data up to its try
htl_county_checks(q) ==
    IF Falsy(q.county_name)
    THEN ErrorEnvelope(400, "message", "County name not provided")
    ELSE NoResponse

\* the except clauses of fermentation_calc_data
fermentation_calc_except(e) == ErrorEnvelope(500, "error", StrOfExc(e))

\* mutant: no except clause for ValueError
fermentation_county_except_NoValueError(e) ==
    ErrorEnvelope(500, "error", StrOfExc(e))

\* the except clauses of fermentation_county_data
fermentation_county_except(e) ==
    IF e.cls = "ValueError" THEN ErrorEnvelope(404, "error", "County not found")
    ELSE ErrorEnvelope(500, "error", StrOfExc(e))

\* the except clause around the first htl_calc call
htl_calc_except(e) ==
    IF e.cls = "TypeError" THEN ErrorEnvelope(500, "error", StrOfExc(e))
    ELSE Escaped(e)

\* the except clauses of htl_county_data
htl_county_except(e) ==
    IF e.cls = "ValueError" THEN ErrorEnvelope(404, "message", "County not found")
    ELSE IF e.cls = "TypeError" THEN ErrorEnvelope(400, "message", StrOfExc(e))
    ELSE Escaped(e)

\* the success envelopes
fermentation_calc_success(kg_hr, m) ==
    [NoResponse EXCEPT !.kind = "envelope", !.status = 200,
        !.fields = {"mass", "ethanol", "price", "gwp"},
        !.qty = kg_hr, !.product = m.ethanol, !.price = m.price, !.gwp = m.gwp]

fermentation_county_success(name, mass, m) ==
    [NoResponse EXCEPT !.kind = "envelope", !.status = 200,
        !.fields = {"county_name", "mass", "ethanol", "price", "gwp"},
        !.county_name = name,
        !.qty = mass, !.product = m.ethanol, !.price = m.price, !.gwp = m.gwp]

htl_calc_success(sludge, m) ==
    [NoResponse EXCEPT !.kind = "envelope", !.status = 200,
        !.fields = {"sludge", "price", "gwp"},
        !.qty = sludge, !.price = m.price, !.gwp = m.gwp]

htl_county_success(name, sludge, m) ==
    [NoResponse EXCEPT !.kind = "envelope", !.status = 200,
        !.fields = {"county_name", "sludge", "price", "gwp"},
        !.county_name = name,
        !.qty = sludge, !.price = m.price, !.gwp = m.gwp]

----------------------------------------------------------------------------
(* Requests. *)

NoRequest ==
    [ep |-> "", mass |-> PyNone, unit |-> PyNone, county_name |-> PyNone,
     args |-> DefaultArgs(PyNone)]

CalcRequest(ep, mass, unit) == [NoRequest EXCEPT !.ep = ep, !.mass = mass, !.unit = unit]
CountyRequest(ep, name) == [NoRequest EXCEPT !.ep = ep, !.county_name = name]
DirectCall(a) == [NoRequest EXCEPT !.ep = "direct", !.args = a]

\* a query argument is absent or a string
MassArgs == {PyNone} \cup {PyStr(s) : s \in StringsOver(MassAlphabet, MaxStrLen)}
NameArgs == {PyNone} \cup {PyStr(s) : s \in StringsOver(NameAlphabet, MaxStrLen)}
UnitArgs ==
    {PyNone, PyStr(<<>>), PyStr(S_kghr), PyStr(S_tons), PyStr(S_tonnes),
     PyStr(S_mgd), PyStr(S_m3d), PyStr(S_KGHR), PyStr(S_bogus)}

\* every request of the model: the HTTP endpoints, and direct calls of
\* fermentation_calc (as the module's own tests make)
AllRequests ==
    {CalcRequest(ep, m, u) :
        ep \in {"fermentation_calc", "htl_calc"}, m \in MassArgs, u \in UnitArgs}
    \cup {CountyRequest(ep, n) :
        ep \in {"fermentation_county", "htl_county"}, n \in NameArgs}
    \cup {CalcRequest("combustion_calc", PyStr(<<"1">>), PyNone),
          CountyRequest("combustion_county", PyStr(<<"a", "b">>))}
    \cup {DirectCall(a) :
        a \in OverrideArgs(PyFloat(Scale)) \cup {DefaultArgs(PyStr(<<"1">>))}}

\* the requests served concurrently in SpecThreads
ThreadRequests ==
    {CalcRequest("fermentation_calc", PyStr(<<"1">>), PyNone),
     CalcRequest("fermentation_calc", PyStr(<<"1">>), PyStr(S_bogus)),
     CalcRequest("htl_calc", PyStr(<<"1">>), PyStr(S_mgd)),
     CountyRequest("fermentation_county", PyStr(<<"a", "b">>)),
     CountyRequest("htl_county", PyStr(<<"a", "b">>)),
     CalcRequest("combustion_calc", PyStr(<<"1">>), PyNone),
     CountyRequest("combustion_county", PyStr(<<"a", "b">>))}
    \cup {DirectCall(a) : a \in OverrideArgs(PyFloat(Scale))}

\* the table of SpecThreads
ThreadTable ==
    [rows |-> <<[County |-> <<"A", "b">>,
                 tons |-> PyFloat((127 * Scale) \div 10),
                 kghr |-> PyFloat(3 * Scale)]>>,
     cols |-> {COL_TONS, COL_KG}, kgInt |-> FALSE]

----------------------------------------------------------------------------
(* State. *)

NoLocals ==
    [value |-> PyNone, unit |-> PyNone, kg_hr |-> PyNone,
     args |-> DefaultArgs(PyNone), fs |-> FreshFlowsheet, ran |-> NoConfig,
     metrics |-> NoMetrics, county |-> NoCounty, exc |-> NoExc]

InitRequests ==
    /\ PowerUtility = LibraryPowerUtility
    /\ req = [r \in Reqs |-> NoRequest]
    /\ pc = [r \in Reqs |-> "idle"]
    /\ loc = [r \in Reqs |-> NoLocals]
    /\ resp = [r \in Reqs |-> NoResponse]
    /\ simCalls = [r \in Reqs |-> 0]

Init == table \in Tables /\ InitRequests

InitThreads == table = ThreadTable /\ InitRequests

Goto(r, p) == pc' = [pc EXCEPT ![r] = p]

\* the handler returns rsp
Respond(r, rsp) == resp' = [resp EXCEPT ![r] = rsp] /\ Goto(r, "formatted")

\* the server hands request q to a handler
Receive(r, q) ==
    /\ pc[r] = "idle"
    /\ req' = [req EXCEPT ![r] = q]
    /\ Goto(r, "received")
    /\ UNCHANGED <<table, PowerUtility, loc, resp, simCalls>>

----------------------------------------------------------------------------
(* Simulation gateway: fermentation_calc, one step per shared access. *)

InGateway(r) == pc[r] \in {"gw_check", "gw_price", "gw_cf", "gw_sim", "gw_read"}

\* the type checks, then the construction of the flowsheet
GwCheck(r) ==
    /\ pc[r] = "gw_check"
    /\ IF GatewayTypeError(loc[r].args) # NoExc
       THEN /\ loc' = [loc EXCEPT ![r].exc = GatewayTypeError(loc[r].args)]
            /\ Goto(r, "raised")
       ELSE /\ loc' = [loc EXCEPT ![r].fs = FreshFlowsheet]
            /\ Goto(r, "gw_price")
    /\ UNCHANGED <<table, PowerUtility, req, resp, simCalls>>

\* mutant: bst.PowerUtility.price is left as the last call set it
GwPrice_KeepPowerUtility(r) ==
    /\ pc[r] = "gw_price"
    /\ loc' = [loc EXCEPT ![r].fs.F_mass = loc[r].args.mass.v,
                          ![r].fs.price = loc[r].args.cornstover_price.v]
    /\ Goto(r, "gw_cf")
    /\ UNCHANGED <<table, PowerUtility, req, resp, simCalls>>

\* feedstock.F_mass = mass; the stream prices; bst.PowerUtility.price
GwPrice(r) ==
    /\ pc[r] = "gw_price"
    /\ loc' = [loc EXCEPT ![r].fs.F_mass = loc[r].args.mass.v,
                          ![r].fs.price = loc[r].args.cornstover_price.v]
    /\ PowerUtility' = [PowerUtility EXCEPT !.price = loc[r].args.power_utility_price.v]
    /\ Goto(r, "gw_cf")
    /\ UNCHANGED <<table, req, resp, simCalls>>

\* the streams' GWP factors; bst.PowerUtility.characterization_factors['GWP']
GwCf(r) ==
    /\ pc[r] = "gw_cf"
    /\ loc' = [loc EXCEPT ![r].fs.cf = loc[r].args.GWP_CFs.cf]
    /\ PowerUtility' = [PowerUtility EXCEPT !.cf = loc[r].args.characterization_factors.cf]
    /\ Goto(r, "gw_sim")
    /\ UNCHANGED <<table, req, resp, simCalls>>

\* sys.simulate(): runs with the configuration then in effect, or raises
GwSimulate(r) ==
    /\ pc[r] = "gw_sim"
    /\ simCalls' = [simCalls EXCEPT ![r] = @ + 1]
    /\ \/ /\ loc' = [loc EXCEPT ![r].ran = ConfigInEffect(loc[r].fs, PowerUtility)]
          /\ Goto(r, "gw_read")
       \/ \E e \in SimExceptions :
            /\ loc' = [loc EXCEPT ![r].exc = e]
            /\ Goto(r, "raised")
    /\ UNCHANGED <<table, PowerUtility, req, resp>>

\* the three metrics are read off and returned to the caller
GwRead(r) ==
    /\ pc[r] = "gw_read"
    /\ loc' = [loc EXCEPT ![r].metrics = Metrics(loc[r].ran)]
    /\ Goto(r, "computed")
    /\ UNCHANGED <<table, PowerUtility, req, resp, simCalls>>

\* a direct call of fermentation_calc with the caller's overrides
DirectStart(r) ==
    /\ pc[r] = "received" /\ req[r].ep = "direct"
    /\ loc' = [loc EXCEPT ![r].args = req[r].args]
    /\ Goto(r, "gw_check")
    /\ UNCHANGED <<table, PowerUtility, req, resp, simCalls>>

----------------------------------------------------------------------------
(* The fermentation blueprint. *)

FermCalcValidate(r) ==
    /\ pc[r] = "received" /\ req[r].ep = "fermentation_calc"
    /\ IF fermentation_calc_checks(req[r]).kind # "pending"
       THEN Respond(r, fermentation_calc_checks(req[r])) /\ UNCHANGED loc
       ELSE /\ loc' = [loc EXCEPT ![r].value = PyFloat(FloatOf(req[r].mass.s)),
                                  ![r].unit = UnitOrDefault(req[r].unit)]
            /\ Goto(r, "validated")
            /\ UNCHANGED resp
    /\ UNCHANGED <<table, PowerUtility, req, simCalls>>

\* kg_hr = fermentation_kg(mass, unit), then the call of fermentation_calc
FermCalcNormalize(r) ==
    /\ pc[r] = "validated" /\ req[r].ep = "fermentation_calc"
    /\ LET o == fermentation_convert_feedstock_kg_hr(loc[r].value, loc[r].unit)
       IN  IF o.exc # NoExc
           THEN loc' = [loc EXCEPT ![r].exc = o.exc] /\ Goto(r, "raised")
           ELSE /\ loc' = [loc EXCEPT ![r].kg_hr = o.val,
                                      ![r].args = DefaultArgs(o.val)]
                /\ Goto(r, "gw_check")
    /\ UNCHANGED <<table, PowerUtility, req, resp, simCalls>>

FermCountyValidate(r) ==
    /\ pc[r] = "received" /\ req[r].ep = "fermentation_county"
    /\ IF fermentation_county_checks(req[r]).kind # "pending"
       THEN Respond(r, fermentation_county_checks(req[r]))
       ELSE Goto(r, "validated") /\ UNCHANGED resp
    /\ UNCHANGED <<table, PowerUtility, req, loc, simCalls>>

\* fermentation_county: the lookup, then the call of fermentation_calc
FermCountyResolve(r) ==
    /\ pc[r] = "validated" /\ req[r].ep = "fermentation_county"
    /\ LET c == fermentation_county_lookup(req[r].county_name, table)
       IN  IF c.exc # NoExc
           THEN loc' = [loc EXCEPT ![r].exc = c.exc] /\ Goto(r, "raised")
           ELSE /\ loc' = [loc EXCEPT ![r].county = c,
                                      ![r].args = DefaultArgs(c.kg_per_hr)]
                /\ Goto(r, "gw_check")
    /\ UNCHANGED <<table, PowerUtility, req, resp, simCalls>>

\* a direct caller sees the exception itself
Raised(e) == [NoResponse EXCEPT !.kind = "raised", !.exc = e]

\* what the handler of request r returns once the gateway has returned
SuccessResponse(r) ==
    CASE req[r].ep = "fermentation_calc" ->
            fermentation_calc_success(loc[r].kg_hr.v, loc[r].metrics)
      [] req[r].ep = "fermentation_county" ->
            fermentation_county_success(loc[r].county.name_final,
                loc[r].county.dry_tonnes, loc[r].metrics)
      [] req[r].ep = "htl_calc" -> htl_calc_success(loc[r].kg_hr.v, loc[r].metrics)
      [] req[r].ep = "htl_county" ->
            htl_county_success(loc[r].county.name_final,
                loc[r].county.kg_per_hr.v, loc[r].metrics)
      [] OTHER -> Returned(loc[r].metrics)

\* what the handler of request r does with an exception raised in its try
ExceptResponse(r) ==
    CASE req[r].ep = "fermentation_calc" -> fermentation_calc_except(loc[r].exc)
      [] req[r].ep = "fermentation_county" -> fermentation_county_except(loc[r].exc)
      [] req[r].ep = "htl_calc" -> htl_calc_except(loc[r].exc)
      [] req[r].ep = "htl_county" -> htl_county_except(loc[r].exc)
      [] OTHER -> Raised(loc[r].exc)

\* jsonify(response_data), 200
Format(r) ==
    /\ pc[r] = "computed"
    /\ Respond(r, SuccessResponse(r))
    /\ UNCHANGED <<table, PowerUtility, req, loc, simCalls>>

\* the except clauses of the handler
Except(r) ==
    /\ pc[r] = "raised"
    /\ Respond(r, ExceptResponse(r))
    /\ UNCHANGED <<table, PowerUtility, req, loc, simCalls>>

----------------------------------------------------------------------------
(* The HTL blueprint.  Its service module is not among the sources: htl_calc *)
(* is the gateway of spec 4.3 for the HTL model, returning (price, gwp) as   *)
(* the handler unpacks it, and htl_county the resolver of spec 4.2.          *)

HtlResult(exc, falsy, m, sims) == [exc |-> exc, falsy |-> falsy, m |-> m, sims |-> sims]

\* htl_calc(sludge): a result, a result the handler's "if result" rejects,
\* or an exception of the run; a TypeError before the run for a non-number
htl_calc_outcomes(sludge) ==
    IF ~IsNumber(sludge)
    THEN {HtlResult(Exc("TypeError", "Sludge should be a number"), FALSE, NoMetrics, 0)}
    ELSE {HtlResult(NoExc, FALSE, Metrics(ConfigOf(DefaultArgs(sludge))), 1),
          HtlResult(NoExc, TRUE, NoMetrics, 1)}
         \cup {HtlResult(e, FALSE, NoMetrics, 1) : e \in SimExceptions}

\* htl_county(name) up to its run: the contract of the county resolver
htl_county_lookup(name, t) == fermentation_county_lookup(name, t)

HtlCalcValidate(r) ==
    /\ pc[r] = "received" /\ req[r].ep = "htl_calc"
    /\ IF htl_calc_checks(req[r]).kind # "pending"
       THEN Respond(r, htl_calc_checks(req[r])) /\ UNCHANGED loc
       ELSE /\ loc' = [loc EXCEPT ![r].value = PyFloat(FloatOf(req[r].mass.s)),
                                  ![r].unit = UnitOrDefault(req[r].unit)]
            /\ Goto(r, "validated")
            /\ UNCHANGED resp
    /\ UNCHANGED <<table, PowerUtility, req, simCalls>>

\* sludge = htl_convert_kg(sludge, unit), outside any try
HtlConvert(r) ==
    /\ pc[r] = "validated" /\ req[r].ep = "htl_calc"
    /\ LET o == htl_convert_sludge_mass_kg_hr(loc[r].value, loc[r].unit)
       IN  IF o.exc # NoExc
           THEN Respond(r, Escaped(o.exc)) /\ UNCHANGED loc
           ELSE /\ loc' = [loc EXCEPT ![r].kg_hr = o.val]
                /\ Goto(r, "htl_first")
                /\ UNCHANGED resp
    /\ UNCHANGED <<table, PowerUtility, req, simCalls>>

\* result = htl_calc(sludge) in the try, and the "if result" that follows
HtlCalcFirst(r) ==
    /\ pc[r] = "htl_first"
    /\ \E o \in htl_calc_outcomes(loc[r].kg_hr) :
        /\ simCalls' = [simCalls EXCEPT ![r] = @ + o.sims]
        /\ loc' = [loc EXCEPT ![r].exc = o.exc]
        /\ IF o.exc # NoExc
           THEN Respond(r, htl_calc_except(o.exc))
           ELSE IF o.falsy
           THEN Respond(r, ErrorEnvelope(500, "error", "Unexpected error"))
           ELSE Goto(r, "htl_second") /\ UNCHANGED resp
    /\ UNCHANGED <<table, PowerUtility, req>>

\* price, gwp = htl_calc(sludge): a second call, outside the try
HtlCalcSecond(r) ==
    /\ pc[r] = "htl_second"
    /\ \E o \in htl_calc_outcomes(loc[r].kg_hr) :
        /\ simCalls' = [simCalls EXCEPT ![r] = @ + o.sims]
        /\ IF o.exc # NoExc
           THEN /\ Respond(r, Escaped(o.exc))
                /\ loc' = [loc EXCEPT ![r].exc = o.exc]
           ELSE IF o.falsy
           THEN /\ Respond(r, Escaped(Exc("TypeError",
                        "cannot unpack non-iterable NoneType object")))
                /\ UNCHANGED loc
           ELSE /\ loc' = [loc EXCEPT ![r].metrics = o.m]
                /\ Goto(r, "computed")
                /\ UNCHANGED resp
    /\ UNCHANGED <<table, PowerUtility, req>>

HtlCountyValidate(r) ==
    /\ pc[r] = "received" /\ req[r].ep = "htl_county"
    /\ IF htl_county_checks(req[r]).kind # "pending"
       THEN Respond(r, htl_county_checks(req[r]))
       ELSE Goto(r, "validated") /\ UNCHANGED resp
    /\ UNCHANGED <<table, PowerUtility, req, loc, simCalls>>

\* result = htl_county(county_name) in the try, and the "if result"
HtlCountyCall(r) ==
    /\ pc[r] = "validated" /\ req[r].ep = "htl_county"
    /\ LET c == htl_county_lookup(req[r].county_name, table)
       IN  IF c.exc # NoExc
           THEN /\ Respond(r, htl_county_except(c.exc))
                /\ loc' = [loc EXCEPT ![r].exc = c.exc]
                /\ UNCHANGED simCalls
           ELSE \E o \in htl_calc_outcomes(c.kg_per_hr) :
                /\ simCalls' = [simCalls EXCEPT ![r] = @ + o.sims]
                /\ IF o.exc # NoExc
                   THEN /\ Respond(r, htl_county_except(o.exc))
                        /\ loc' = [loc EXCEPT ![r].exc = o.exc]
                   ELSE IF o.falsy
                   THEN /\ Respond(r, ErrorEnvelope(500, "message", "Unexpected error"))
                        /\ UNCHANGED loc
                   ELSE /\ loc' = [loc EXCEPT ![r].county = c, ![r].metrics = o.m]
                        /\ Goto(r, "computed")
                        /\ UNCHANGED resp
    /\ UNCHANGED <<table, PowerUtility, req>>

----------------------------------------------------------------------------
(* The combustion blueprint: both view functions have the body "None". *)

CombustionView(r) ==
    /\ pc[r] = "received" /\ req[r].ep \in {"combustion_calc", "combustion_county"}
    /\ Respond(r, ReturnedNone)
    /\ UNCHANGED <<table, PowerUtility, req, loc, simCalls>>

----------------------------------------------------------------------------
(* Specifications. *)

Step(r) ==
    \/ DirectStart(r)
    \/ GwCheck(r) \/ GwPrice(r) \/ GwCf(r) \/ GwSimulate(r) \/ GwRead(r)
    \/ FermCalcValidate(r) \/ FermCalcNormalize(r)
    \/ FermCountyValidate(r) \/ FermCountyResolve(r)
    \/ HtlCalcValidate(r) \/ HtlConvert(r) \/ HtlCalcFirst(r) \/ HtlCalcSecond(r)
    \/ HtlCountyValidate(r) \/ HtlCountyCall(r)
    \/ CombustionView(r)
    \/ Format(r) \/ Except(r)

\* one request at a time, over every request and every table
Next == (\E q \in AllRequests : Receive(1, q)) \/ Step(1)

Spec == Init /\ [][Next]_vars

\* NumReqs requests served concurrently by the threads of the server
NextThreads == \E r \in Reqs : (\E q \in ThreadRequests : Receive(r, q)) \/ Step(r)

SpecThreads == InitThreads /\ [][NextThreads]_vars

----------------------------------------------------------------------------
(* Direct calls of the unit normalizer, as the module's Test 1 makes. *)

\* def fermentation_convert_feedstock_kg_hr(feedstock, unit='kghr')
SignatureUnit(u) == IF u.t = "None" THEN PyStr(S_kghr) ELSE u

ConvertCall(feedstock, unit) ==
    [NoRequest EXCEPT !.ep = "convert", !.mass = feedstock, !.unit = unit]

\* feedstock arguments: numbers, and the non-numbers '1' and numpy.int64
ConvertValues ==
    {PyFloat(k * Scale) : k \in 0 .. MaxValue}
    \cup {PyStr(<<"1">>), PyInt64(Scale)}

\* unit arguments: omitted, strings, and the non-string 100
ConvertUnits == UnitArgs \cup {PyFloat(100 * Scale)}

ConvertRequests == {ConvertCall(v, u) : v \in ConvertValues, u \in ConvertUnits}

\* the value the normalizer returned to its caller
ReturnedQuantity(val) == [NoResponse EXCEPT !.kind = "returned", !.qty = val.v]

\* the call: a value or an exception comes back, nothing else is touched
ConvertApply(r) ==
    /\ pc[r] = "received" /\ req[r].ep = "convert"
    /\ LET o == fermentation_convert_feedstock_kg_hr(
                    req[r].mass, SignatureUnit(req[r].unit))
       IN  IF o.exc # NoExc
           THEN loc' = [loc EXCEPT ![r].exc = o.exc] /\ Respond(r, Raised(o.exc))
           ELSE /\ loc' = [loc EXCEPT ![r].kg_hr = o.val]
                /\ Respond(r, ReturnedQuantity(o.val))
    /\ UNCHANGED <<table, PowerUtility, req, simCalls>>

\* the same call is made a second time
ConvertRepeat == pc[1] = "formatted" /\ Receive(2, req[1])

NextNormalizer ==
    \/ \E q \in ConvertRequests : Receive(1, q)
    \/ ConvertRepeat
    \/ \E r \in {1, 2} : ConvertApply(r)

SpecNormalizer == InitThreads /\ [][NextNormalizer]_vars

----------------------------------------------------------------------------
(* Sequential service: one request or call after the other in one process. *)

NotServing(r) == pc[r] \in {"idle", "formatted"}

\* the next request starts only when no other is being served
ReceiveSequential(r, q) ==
    /\ \A s \in Reqs \ {r} : NotServing(s)
    /\ Receive(r, q)

\* the caller is done with a result and makes room for another call; what
\* the calls wrote to bst.PowerUtility stays
Recycle(r) ==
    /\ pc[r] = "formatted"
    /\ req' = [req EXCEPT ![r] = NoRequest]
    /\ loc' = [loc EXCEPT ![r] = NoLocals]
    /\ resp' = [resp EXCEPT ![r] = NoResponse]
    /\ simCalls' = [simCalls EXCEPT ![r] = 0]
    /\ Goto(r, "idle")
    /\ UNCHANGED <<table, PowerUtility>>

NextSequential ==
    \E r \in {1, 2} :
        \/ \E q \in ThreadRequests : ReceiveSequential(r, q)
        \/ Recycle(r)
        \/ Step(r)

SpecSequential == InitThreads /\ [][NextSequential]_vars

----------------------------------------------------------------------------
(* Properties. *)

Done(r) == pc[r] = "formatted"

HttpGatewayEndpoints == {"fermentation_calc", "fermentation_county"}

\* request r has written shared simulator configuration and has not yet
\* read off the metrics of its run
InSection(r) == pc[r] \in {"gw_cf", "gw_sim", "gw_read"}

\* C1: at most one HTTP request at a time is inside the gateway's
\* configure-then-simulate section.
C1_MutualExclusion ==
    \A r1, r2 \in Reqs :
        (/\ r1 # r2
         /\ req[r1].ep \in HttpGatewayEndpoints
         /\ req[r2].ep \in HttpGatewayEndpoints)
        => ~(InSection(r1) /\ InSection(r2))

\* the run of request r has happened
HasRun(r) == pc[r] \in {"gw_read", "computed", "formatted"} /\ loc[r].ran # NoConfig

\* C2: the configuration in effect when a call's sys.simulate() runs is the
\* configuration that call wrote from its own arguments.
C2_NoCrossContamination ==
    \A r \in Reqs : HasRun(r) => loc[r].ran = ConfigOf(loc[r].args)


HttpEndpoints == Endpoints \ {"direct"}
CalcEndpoints == {"fermentation_calc", "htl_calc", "combustion_calc"}
CountyEndpoints == {"fermentation_county", "htl_county", "combustion_county"}

IsEnvelope(rsp) == rsp.kind = "envelope"

\* the unit set of a calc endpoint
UnitSet(ep) == IF ep = "htl_calc" THEN HtlUnits ELSE FermentationUnits

QuantityMissing(q) == q.mass.t = "None"
QuantityNotNumeric(q) == q.mass.t = "str" /\ ~FloatParses(q.mass.s)
UnitInvalid(q) == q.unit.t = "str" /\ q.unit.s \notin UnitSet(q.ep)
CountyNameMissing(q) == q.county_name.t = "None" \/ q.county_name.s = <<>>

\* the request is one of those validation rejects
ValidationFails(q) ==
    \/ /\ q.ep \in {"fermentation_calc", "htl_calc"}
       /\ QuantityMissing(q) \/ QuantityNotNumeric(q) \/ UnitInvalid(q)
    \/ /\ q.ep \in {"fermentation_county", "htl_county"}
       /\ CountyNameMissing(q)

\* C3: a calc or county request that validation rejects gets its 400 / 422
\* error response without the simulation having been invoked for it.
C3_FailFast ==
    \A r \in Reqs :
        ValidationFails(req[r]) =>
            /\ simCalls[r] = 0
            /\ ~InGateway(r)
            /\ Done(r) => IsEnvelope(resp[r]) /\ resp[r].status \in {400, 422}

C3_Witness ==
    \E r \in Reqs :
        /\ Done(r) /\ req[r].ep = "htl_calc"
        /\ UnitInvalid(req[r]) /\ resp[r].status = 422
        /\ Lower(req[r].unit.s) \in HtlUnits

\* C4: every request to a pathway endpoint ends in exactly one response, a
\* success envelope with 200 or an error envelope with 400, 404, 422 or 500:
\* no exception leaves the handler and no handler returns nothing.
C4_AlwaysAnEnvelope ==
    \A r \in Reqs :
        (Done(r) /\ req[r].ep \in HttpEndpoints) =>
            /\ IsEnvelope(resp[r])
            /\ resp[r].status \in {200, 400, 404, 422, 500}

SimulationRaised(r) == simCalls[r] > 0 /\ loc[r].exc \in SimExceptions

\* C6: when the simulation raises for a validated calc request, the
\* response is a 500 whose error field is the exception's message.
C6_SimulationFailureIs500 ==
    \A r \in Reqs :
        (Done(r) /\ req[r].ep \in CalcEndpoints /\ SimulationRaised(r)) =>
            /\ IsEnvelope(resp[r])
            /\ resp[r].status = 500
            /\ resp[r].error = loc[r].exc.msg

\* name has a case-insensitive exact match in the table
RowMatches(name) ==
    \E i \in 1 .. Len(table.rows) : Lower(table.rows[i].County) = Lower(name)

\* C7: on the fermentation county endpoint a non-empty name with no
\* case-insensitive match makes the resolver raise its not-found error
\* before any simulation and the endpoint answer 404; an absent or empty
\* name answers 400.
C7_UnknownCountyIs404 ==
    \A r \in Reqs :
        req[r].ep = "fermentation_county" =>
            /\ (CountyNameMissing(req[r]) /\ Done(r)) =>
                    IsEnvelope(resp[r]) /\ resp[r].status = 400
            /\ (~CountyNameMissing(req[r]) /\ ~RowMatches(req[r].county_name.s)) =>
                    /\ simCalls[r] = 0
                    /\ ~InGateway(r)
                    /\ pc[r] = "raised" => loc[r].exc.cls = "ValueError"
                    /\ Done(r) => IsEnvelope(resp[r]) /\ resp[r].status = 404

C7_Witness ==
    \E r \in Reqs :
        /\ Done(r) /\ req[r].ep = "fermentation_county"
        /\ Len(table.rows) > 0
        /\ ~CountyNameMissing(req[r]) /\ ~RowMatches(req[r].county_name.s)
        /\ resp[r].status = 404

NameStrings == StringsOver(NameAlphabet, MaxStrLen)

Resolved(r) == pc[r] \notin {"idle", "received", "validated"}

\* C8: two names equal after lower-casing that match a row resolve to the
\* same row and record, and the record's name is the table's own spelling.
C8_CaseInsensitiveCanonical ==
    \A r \in Reqs :
        (/\ req[r].ep = "fermentation_county" /\ Resolved(r)
         /\ RowMatches(req[r].county_name.s)) =>
            \A n2 \in NameStrings :
                Lower(n2) = Lower(req[r].county_name.s) =>
                    LET c2 == fermentation_county_lookup(PyStr(n2), table)
                    IN  IF c2.exc # NoExc
                        THEN simCalls[r] = 0 /\ loc[r].exc = c2.exc
                        ELSE /\ loc[r].county = c2
                             /\ c2.name_final = table.rows[c2.row].County
                             /\ (Done(r) /\ resp[r].status = 200) =>
                                    resp[r].county_name = table.rows[c2.row].County

C8_Witness ==
    \E r \in Reqs :
        /\ Done(r) /\ req[r].ep = "fermentation_county"
        /\ resp[r].status = 200
        /\ resp[r].county_name # req[r].county_name.s
        /\ Lower(resp[r].county_name) = Lower(req[r].county_name.s)

ColumnMissing == COL_TONS \notin table.cols \/ COL_KG \notin table.cols

\* C9: on a county endpoint, a name that matches a row of a table lacking
\* an expected column is answered with an HTTP 500 envelope, never 404 and
\* never an unhandled exception (stated for the fermentation and HTL
\* endpoints; the combustion view returns nothing at all).
C9_SchemaErrorIs500 ==
    \A r \in Reqs :
        (/\ Done(r) /\ req[r].ep \in {"fermentation_county", "htl_county"}
         /\ ~CountyNameMissing(req[r])
         /\ RowMatches(req[r].county_name.s)
         /\ ColumnMissing) =>
            IsEnvelope(resp[r]) /\ resp[r].status = 500

\* C10: a calc endpoint's 200 envelope holds all four fields (the
\* normalized quantity, the product, price, gwp) and every other envelope
\* holds a single error-message field (stated for the envelopes the
\* fermentation and HTL handlers return).
C10_AllOrNothingEnvelope ==
    \A r \in Reqs :
        (/\ Done(r) /\ req[r].ep \in {"fermentation_calc", "htl_calc"}
         /\ IsEnvelope(resp[r])) =>
            IF resp[r].status = 200
            THEN /\ Cardinality(resp[r].fields) = 4
                 /\ {"price", "gwp"} \subseteq resp[r].fields
                 /\ resp[r].fields \cap {"mass", "sludge"} # {}
                 /\ resp[r].fields \cap {"error", "message"} = {}
            ELSE /\ Cardinality(resp[r].fields) = 1
                 /\ resp[r].fields \subseteq {"error", "message"}

\* the request ended in a success envelope
Succeeded(r) == Done(r) /\ IsEnvelope(resp[r]) /\ resp[r].status = 200

\* C11: in every success envelope of the fermentation endpoints the mass
\* field is the kg/hr value the simulation ran with: for calc the normalized
\* quantity, for county the row's Kilogram/hr cell.
C11_QuantityReportedIsSimulated ==
    \A r \in Reqs :
        (Succeeded(r) /\ req[r].ep \in HttpGatewayEndpoints) =>
            /\ resp[r].qty = loc[r].ran.F_mass
            /\ req[r].ep = "fermentation_calc" =>
                    resp[r].qty =
                        fermentation_convert_feedstock_kg_hr(
                            PyFloat(FloatOf(req[r].mass.s)),
                            UnitOrDefault(req[r].unit)).val.v
            /\ req[r].ep = "fermentation_county" =>
                    resp[r].qty = table.rows[loc[r].county.row].kghr.v

\* a direct call of the normalizer has come back
Converted(r) == Done(r) /\ req[r].ep = "convert"

\* the call had a numeric feedstock and a unit the normalizer converts
ConvertedValue(r) == Converted(r) /\ resp[r].kind = "returned"

\* y is num / 8760 cut to the fixed-point resolution
IsPerHour(y, num) == 8760 * y <= num /\ num < 8760 * (y + 1)

\* y is x to within one unit of the last of four decimal places
ApproxEq(y, x) == y - x \in {-1, 0, 1}

\* the conversion table: identity for kghr (also when the unit is omitted),
\* v * 907.185 / 8760 for tons, v * 1000 / 8760 for tonnes
NormalizerTable(r) ==
    LET v == req[r].mass.v
        u == Lower(SignatureUnit(req[r].unit).s)
        y == resp[r].qty
    IN  /\ u \in FermentationUnits
        /\ u = S_kghr => y = v
        /\ u = S_tons => IsPerHour(y, TimesMilli(v, 907, 185))
        /\ u = S_tonnes => IsPerHour(y, v * 1000)

\* linear in v: the value of a sum is the sum of the values, up to the
\* one unit lost by cutting each to the resolution
NormalizerLinear(r) ==
    LET u == SignatureUnit(req[r].unit)
        f(x) == fermentation_convert_feedstock_kg_hr(PyFloat(x), u).val.v
    IN  \A b \in 0 .. MaxValue :
            req[r].mass.v + b * Scale <= MaxValue * Scale =>
                f(req[r].mass.v + b * Scale) - resp[r].qty - f(b * Scale) \in {0, 1}

\* deterministic, and without effect on the process's state
NormalizerPure ==
    /\ \A r1, r2 \in Reqs :
            (Converted(r1) /\ Converted(r2) /\ req[r1] = req[r2]) =>
                resp[r1] = resp[r2]
    /\ (\A r \in Reqs : req[r].ep \in {"", "convert"}) =>
            /\ PowerUtility = LibraryPowerUtility
            /\ \A r \in Reqs : simCalls[r] = 0 /\ loc[r].ran = NoConfig

\* 100 tons and 100 tonnes, the results in 1/Scale kg/hr
NormalizerExamples(r, tons100, tonnes100) ==
    LET u == SignatureUnit(req[r].unit).s
    IN  req[r].mass.v = 100 * Scale =>
            /\ u = S_tons => ApproxEq(resp[r].qty, tons100)
            /\ u = S_tonnes => ApproxEq(resp[r].qty, tonnes100)

NormalizerErrors(r, unitInSet) ==
    LET v == req[r].mass
        u == SignatureUnit(req[r].unit)
    IN  /\ (~IsNumber(v) \/ u.t # "str") =>
                /\ resp[r].kind = "raised" /\ resp[r].exc.cls = "TypeError"
                /\ loc[r].kg_hr = PyNone
        /\ (IsNumber(v) /\ u.t = "str" /\ ~unitInSet) =>
                /\ resp[r].kind = "raised" /\ resp[r].exc.cls = "ValueError"
                /\ loc[r].kg_hr = PyNone

GatewayReturned(r) == pc[r] \in {"computed", "formatted"} /\ loc[r].ran # NoConfig

\* C14: with calls made one after the other, whatever calls came before, a
\* call's run reads the configuration its own arguments describe (stream
\* price, power-utility price, every characterization factor), and two
\* calls with equal arguments return equal metrics.
C14_HistoryIndependence ==
    /\ \A r \in Reqs :
            GatewayReturned(r) =>
                /\ loc[r].ran = ConfigOf(loc[r].args)
                /\ loc[r].metrics = Metrics(ConfigOf(loc[r].args))
    /\ \A r1, r2 \in Reqs :
            (/\ GatewayReturned(r1) /\ GatewayReturned(r2)
             /\ loc[r1].args = loc[r2].args) =>
                loc[r1].metrics = loc[r2].metrics

\* call r2 was the last to write bst.PowerUtility, and ran after call r1
\* had left another power-utility price behind
C14_Witness ==
    \E r1, r2 \in Reqs :
        /\ GatewayReturned(r1) /\ GatewayReturned(r2)
        /\ loc[r1].ran.pu_price # loc[r2].ran.pu_price
        /\ PowerUtility.price = loc[r2].ran.pu_price
        /\ PowerUtility.cf = loc[r2].ran.pu_cf

\* C15: on every path through a calc or county handler the simulation is
\* invoked at most once for the request, whether it succeeds or fails.
C15_AtMostOneSimulation ==
    \A r \in Reqs :
        req[r].ep \in CalcEndpoints \cup CountyEndpoints => simCalls[r] <= 1

\* C16: the fermentation county endpoint answers 404 only when the name has
\* no case-insensitive match in the table; once the name matches a row, no
\* later failure (a cell that is no integer, a ValueError of the run) is
\* answered 404.
C16_NotFoundOnlyForUnknownCounty ==
    \A r \in Reqs :
        (/\ Done(r) /\ req[r].ep = "fermentation_county"
         /\ IsEnvelope(resp[r]) /\ resp[r].status = 404) =>
            ~RowMatches(req[r].county_name.s)

====
